---- MODULE Spec2Model ----
(***************************************************************************)
(* Model of the query-routing pipeline of rag_agent.py (RAGAgent and       *)
(* RouterAgent) and of the Streamlit front end app.py.                     *)
(*                                                                         *)
(* Strings of the program are modelled as sequences: a completion text is  *)
(* a sequence of words, and Python's `sub in text` is contiguous           *)
(* sub-sequence containment; a retrieved text block is a sequence of       *)
(* characters built by "\n".join.  None is a value distinct from every     *)
(* string.                                                                 *)
(***************************************************************************)
EXTENDS Integers, Sequences, FiniteSets, TLC

\* ------------------------------------------------------------------ bounds
MaxWords == 4      \* longest completion text returned for the intent prompt
MaxChunks == 2     \* most scored_chunks in one retrieval response
MaxDocs == 2       \* most documents in one listing response

\* ------------------------------------------------------- inputs of the model
Words == {"meeting", "notes", "client", "agreements", "both", "unclear", "Both"}
ChunkTexts == {<<"a">>, <<"b">>}
Queries == {"what was decided?", "both"}
SynthTexts == {"answer A", "answer B"}
SecretStates == {"missing", "empty", "set"}
DocIds == {"d1", "d2", "d3"}

RECURSIVE SeqsUpTo(_, _)
SeqsUpTo(S, n) ==
    IF n = 0 THEN {<<>>}
    ELSE LET shorter == SeqsUpTo(S, n - 1)
         IN  shorter \cup {Append(s, x) : s \in shorter, x \in S}

CompletionTexts == SeqsUpTo(Words, MaxWords)

\* ------------------------------------------------------------ string helpers
\* str.lower() on one word
LowerWord(w) == IF w = "Both" THEN "both" ELSE w

\* ai_message.strip().lower()
Lower(text) == [i \in 1..Len(text) |-> LowerWord(text[i])]

\* Python `sub in text`
Contains(sub, text) ==
    \E i \in 0..(Len(text) - Len(sub)) : SubSeq(text, i + 1, i + Len(sub)) = sub

\* "\n".join(texts)
RECURSIVE Join(_)
Join(texts) ==
    IF Len(texts) = 0 THEN <<>>
    ELSE IF Len(texts) = 1 THEN texts[1]
    ELSE texts[1] \o <<"\n">> \o Join(Tail(texts))

\* Python values Optional[str]
NoneV == [none |-> TRUE, chars |-> <<>>]
Str(chars) == [none |-> FALSE, chars |-> chars]
EmptyStr == Str(<<>>)

\* the string returned by determine_intent's except branch
ErrorText == <<"Error", "determining", "intent">>

\* -------------------------------------------------------------------- state
VARIABLES
    ragieSecret,              \* st.secrets["RAGIE_API_KEY"]
    openaiSecret,             \* st.secrets["OPENAI_API_KEY"]
    ragie_api_key,            \* RAGAgent.ragie_api_key
    agentsReady,              \* RAGAgent has its llm and agent attributes
    initError,                \* st.error was called by RAGAgent.__init__
    last_query,               \* RAGAgent.last_query
    pc,                       \* position of RouterAgent.process_query
    query,                    \* argument of process_query
    intent,                   \* value returned by determine_intent
    meeting_notes_result,     \* local of process_query
    client_agreements_result, \* local of process_query
    summary,                  \* value returned by process_query
    classifyFailed,           \* the intent completion call raised
    synthFailed,              \* the summary completion call raised
    mnHanded,                 \* meeting_notes_result holds the result of a retrieval call
    caHanded,                 \* client_agreements_result holds the result of a retrieval call
    nClassify,                \* completion calls made by determine_intent
    nMN,                      \* retrieval calls to folder test_meetings
    nCA,                      \* retrieval calls to folder test_client_agreements
    nSynth,                   \* completion calls made by summarize_information
    mnResp,                   \* response to the retrieval call of line 458
    caResp,                   \* response to the retrieval call of line 462
    synthOut,                 \* text the summary completion call produced
    listed,                   \* ids the listing endpoint returned in the last refresh
    meetings,                 \* value returned by get_recent_meeting_summaries
    refreshed,                \* the refresh handler has run on this page
    fetchRaised,              \* a _fetch_raw_summary call of the last refresh raised
    appMsg                    \* what main() displayed for the submitted query

agentVars == <<ragie_api_key, agentsReady, initError, last_query>>
secretVars == <<ragieSecret, openaiSecret>>
queryVars == <<pc, query, intent, meeting_notes_result, client_agreements_result,
               summary, classifyFailed, synthFailed, mnHanded, caHanded,
               nClassify, nMN, nCA, nSynth, mnResp, caResp, synthOut>>
refreshVars == <<listed, meetings, refreshed, fetchRaised>>
vars == <<secretVars, agentVars, queryVars, refreshVars, appMsg>>

NoKey == "<None>"
NoResponse == [kind |-> "none", chunks |-> <<>>]
Unset == "<unset>"

\* ------------------------------------------------------- RAGAgent.__init__
\* Any missing or empty key raises inside the try block before the llm and
\* the agents are created; the except branch reports and sets the key to None.
KeysPresent(rs, os) == rs = "set" /\ os = "set"

RAGAgent_init(rs, os) ==
    IF KeysPresent(rs, os)
    THEN [ragie_api_key |-> "key", agentsReady |-> TRUE, initError |-> FALSE]
    ELSE [ragie_api_key |-> NoKey, agentsReady |-> FALSE, initError |-> TRUE]

Construct ==
    LET a == RAGAgent_init(ragieSecret, openaiSecret)
    IN  /\ ragie_api_key' = a.ragie_api_key
        /\ agentsReady' = a.agentsReady
        /\ initError' = a.initError

\* locals of a handler that is not running
QueryIdle ==
    /\ pc = "idle"
    /\ query = Unset
    /\ intent = <<>>
    /\ meeting_notes_result = EmptyStr
    /\ client_agreements_result = EmptyStr
    /\ summary = ""
    /\ classifyFailed = FALSE
    /\ synthFailed = FALSE
    /\ mnHanded = FALSE
    /\ caHanded = FALSE
    /\ nClassify = 0
    /\ nMN = 0
    /\ nCA = 0
    /\ nSynth = 0
    /\ mnResp = NoResponse
    /\ caResp = NoResponse
    /\ synthOut = ""

RefreshIdle ==
    /\ listed = <<>>
    /\ meetings = <<>>
    /\ refreshed = FALSE
    /\ fetchRaised = FALSE

\* a handler's locals do not outlive its run
ResetQuery ==
    /\ pc' = "idle"
    /\ query' = Unset
    /\ intent' = <<>>
    /\ meeting_notes_result' = EmptyStr
    /\ client_agreements_result' = EmptyStr
    /\ summary' = ""
    /\ classifyFailed' = FALSE
    /\ synthFailed' = FALSE
    /\ mnHanded' = FALSE
    /\ caHanded' = FALSE
    /\ nClassify' = 0
    /\ nMN' = 0
    /\ nCA' = 0
    /\ nSynth' = 0
    /\ mnResp' = NoResponse
    /\ caResp' = NoResponse
    /\ synthOut' = ""

ResetRefresh ==
    /\ listed' = <<>>
    /\ meetings' = <<>>
    /\ refreshed' = FALSE
    /\ fetchRaised' = FALSE

Init ==
    /\ ragieSecret \in SecretStates
    /\ openaiSecret \in SecretStates
    /\ LET a == RAGAgent_init(ragieSecret, openaiSecret)
       IN  /\ ragie_api_key = a.ragie_api_key
           /\ agentsReady = a.agentsReady
           /\ initError = a.initError
    /\ last_query = Unset
    /\ QueryIdle
    /\ RefreshIdle
    /\ appMsg = "none"

\* ---------------------------------------------------- retrieval (Ragie API)
RetrievalFailures == {"http_error", "transport_error", "bad_json"}

RetrievalResponses ==
    [kind : RetrievalFailures, chunks : {<<>>}]
        \cup [kind : {"ok"}, chunks : SeqsUpTo(ChunkTexts, MaxChunks)]

\* value returned by process_meeting_notes for a response of the API
process_meeting_notes(resp) ==
    IF resp.kind = "ok" THEN Str(Join(resp.chunks)) ELSE NoneV

\* value returned by process_client_agreements for a response of the API
process_client_agreements(resp) ==
    IF resp.kind = "ok" THEN Str(Join(resp.chunks)) ELSE NoneV

\* ------------------------------------------------- conditions on the intent
DI_TriggersMeetingNotes(i) == Contains(<<"meeting", "notes">>, i)
DI_TriggersClientAgreements(i) == Contains(<<"client", "agreements">>, i)
DI_TriggersBoth(i) == Contains(<<"both">>, i) \/ Contains(<<"unclear">>, i)

\* which agents determine_intent triggers for an intent text: the word
\* "both" or a text naming both collections is Both, one collection alone is
\* that collection, "unclear" or a text naming neither is Unrecognized
Category(i) ==
    IF Contains(<<"both">>, i) THEN "Both"
    ELSE IF Contains(<<"unclear">>, i) THEN "Unrecognized"
    ELSE IF DI_TriggersMeetingNotes(i) /\ DI_TriggersClientAgreements(i) THEN "Both"
    ELSE IF DI_TriggersMeetingNotes(i) THEN "MeetingNotes"
    ELSE IF DI_TriggersClientAgreements(i) THEN "ClientAgreements"
    ELSE "Unrecognized"

\* a dispatch that also fires on the other collection's marker
PQ_TriggersMeetingNotes_AnyMarker(i) ==
    Contains(<<"meeting", "notes">>, i) \/ Contains(<<"client", "agreements">>, i)

PQ_TriggersMeetingNotes(i) == Contains(<<"meeting", "notes">>, i)
PQ_TriggersClientAgreements(i) == Contains(<<"client", "agreements">>, i)

\* ------------------------------------------- RouterAgent.process_query steps
\* entry: print the query (line 448)
PQ_Start(q) ==
    /\ pc = "idle"
    /\ pc' = "pq_entry"
    /\ query' = q
    /\ intent' = <<>>
    /\ meeting_notes_result' = EmptyStr
    /\ client_agreements_result' = EmptyStr
    /\ summary' = ""
    /\ classifyFailed' = FALSE
    /\ synthFailed' = FALSE
    /\ mnHanded' = FALSE
    /\ caHanded' = FALSE
    /\ nClassify' = 0
    /\ nMN' = 0
    /\ nCA' = 0
    /\ nSynth' = 0
    /\ mnResp' = NoResponse
    /\ caResp' = NoResponse
    /\ synthOut' = ""
    /\ ResetRefresh
    /\ appMsg' = "none"
    /\ UNCHANGED <<secretVars, agentVars>>

\* line 449: self.rag_agent.intent_determination_agent.tools[0].func
\* raises AttributeError on an agent whose constructor stopped early
PQ_LookupIntentTool ==
    /\ pc = "pq_entry"
    /\ pc' = IF agentsReady THEN "di_invoke" ELSE "raised"
    /\ UNCHANGED <<query, intent, meeting_notes_result, client_agreements_result,
                   summary, classifyFailed, synthFailed, mnHanded, caHanded,
                   nClassify, nMN, nCA, nSynth, mnResp, caResp, synthOut>>
    /\ UNCHANGED <<secretVars, agentVars, refreshVars, appMsg>>

\* lines 295-309 and 324-328: the completion call of determine_intent
DI_Invoke ==
    /\ pc = "di_invoke"
    /\ nClassify' = nClassify + 1
    /\ \/ \E t \in CompletionTexts :
             /\ intent' = Lower(t)
             /\ classifyFailed' = FALSE
             /\ pc' = "di_mn"
       \/ /\ intent' = ErrorText
          /\ classifyFailed' = TRUE
          /\ pc' = "pq_mn"
    /\ UNCHANGED <<query, meeting_notes_result, client_agreements_result,
                   summary, synthFailed, mnHanded, caHanded, nMN, nCA, nSynth,
                   mnResp, caResp, synthOut>>
    /\ UNCHANGED <<secretVars, agentVars, refreshVars, appMsg>>

\* lines 312-314: one retrieval call whose return value is dropped, so the
\* response has no effect on the state
DI_MeetingNotes ==
    /\ pc = "di_mn"
    /\ IF DI_TriggersMeetingNotes(intent)
       THEN nMN' = nMN + 1
       ELSE nMN' = nMN
    /\ pc' = "di_ca"
    /\ UNCHANGED <<query, intent, meeting_notes_result, client_agreements_result,
                   summary, classifyFailed, synthFailed, mnHanded, caHanded,
                   nClassify, nCA, nSynth, mnResp, caResp, synthOut>>
    /\ UNCHANGED <<secretVars, agentVars, refreshVars, appMsg>>

\* lines 315-317
DI_ClientAgreements ==
    /\ pc = "di_ca"
    /\ IF DI_TriggersClientAgreements(intent)
       THEN nCA' = nCA + 1
       ELSE nCA' = nCA
    /\ pc' = "di_both"
    /\ UNCHANGED <<query, intent, meeting_notes_result, client_agreements_result,
                   summary, classifyFailed, synthFailed, mnHanded, caHanded,
                   nClassify, nMN, nSynth, mnResp, caResp, synthOut>>
    /\ UNCHANGED <<secretVars, agentVars, refreshVars, appMsg>>

\* lines 318-320; line 323 when the condition is false
DI_Both ==
    /\ pc = "di_both"
    /\ IF DI_TriggersBoth(intent)
       THEN /\ nMN' = nMN + 1
            /\ pc' = "di_both_ca"
       ELSE /\ nMN' = nMN
            /\ pc' = "pq_mn"
    /\ UNCHANGED <<query, intent, meeting_notes_result, client_agreements_result,
                   summary, classifyFailed, synthFailed, mnHanded, caHanded,
                   nClassify, nCA, nSynth, mnResp, caResp, synthOut>>
    /\ UNCHANGED <<secretVars, agentVars, refreshVars, appMsg>>

\* lines 321-323
DI_BothClientAgreements ==
    /\ pc = "di_both_ca"
    /\ nCA' = nCA + 1
    /\ pc' = "pq_mn"
    /\ UNCHANGED <<query, intent, meeting_notes_result, client_agreements_result,
                   summary, classifyFailed, synthFailed, mnHanded, caHanded,
                   nClassify, nMN, nSynth, mnResp, caResp, synthOut>>
    /\ UNCHANGED <<secretVars, agentVars, refreshVars, appMsg>>

\* lines 456-458
PQ_MeetingNotes ==
    /\ pc = "pq_mn"
    /\ IF PQ_TriggersMeetingNotes(intent)
       THEN \E resp \in RetrievalResponses :
                /\ meeting_notes_result' = process_meeting_notes(resp)
                /\ mnResp' = resp
                /\ mnHanded' = TRUE
                /\ nMN' = nMN + 1
       ELSE UNCHANGED <<meeting_notes_result, mnResp, mnHanded, nMN>>
    /\ pc' = "pq_ca"
    /\ UNCHANGED <<query, intent, client_agreements_result, summary, classifyFailed,
                   synthFailed, caHanded, nClassify, nCA, nSynth, caResp, synthOut>>
    /\ UNCHANGED <<secretVars, agentVars, refreshVars, appMsg>>

\* lines 460-463
PQ_ClientAgreements ==
    /\ pc = "pq_ca"
    /\ IF PQ_TriggersClientAgreements(intent)
       THEN \E resp \in RetrievalResponses :
                /\ client_agreements_result' = process_client_agreements(resp)
                /\ caResp' = resp
                /\ caHanded' = TRUE
                /\ nCA' = nCA + 1
       ELSE UNCHANGED <<client_agreements_result, caResp, caHanded, nCA>>
    /\ pc' = "pq_sum"
    /\ UNCHANGED <<query, intent, meeting_notes_result, summary, classifyFailed,
                   synthFailed, mnHanded, nClassify, nMN, nSynth, mnResp, synthOut>>
    /\ UNCHANGED <<secretVars, agentVars, refreshVars, appMsg>>

\* summarize_information: one completion call, whatever the two blocks are,
\* and no handler around it
CompletionOutcomes == [ok : {TRUE}, text : SynthTexts] \cup {[ok |-> FALSE, text |-> ""]}

summarize_information(mn, ca, out) ==
    [calls |-> 1, raised |-> ~out.ok, value |-> out.text]

\* lines 466-468
PQ_Summarize ==
    /\ pc = "pq_sum"
    /\ \E out \in CompletionOutcomes :
          LET r == summarize_information(meeting_notes_result, client_agreements_result, out)
          IN  /\ nSynth' = nSynth + r.calls
              /\ synthFailed' = r.raised
              /\ synthOut' = out.text
              /\ summary' = IF r.raised THEN summary ELSE r.value
              /\ pc' = IF r.raised THEN "raised" ELSE "done"
    /\ UNCHANGED <<query, intent, meeting_notes_result, client_agreements_result,
                   classifyFailed, mnHanded, caHanded, nClassify, nMN, nCA,
                   mnResp, caResp>>
    /\ UNCHANGED <<secretVars, agentVars, refreshVars, appMsg>>

\* process_query has returned or raised: its caller has the outcome and the
\* frame with its locals is gone
PQ_Exit ==
    /\ pc \in {"done", "raised"}
    /\ ResetQuery
    /\ UNCHANGED <<secretVars, agentVars, refreshVars, appMsg>>

\* ------------------------------------------------ refresh (Ragie documents)
ListResponses ==
    [kind : {"http_error", "transport_error", "bad_json"}, docs : {<<>>}]
        \cup [kind : {"ok"}, docs : SeqsUpTo(DocIds, MaxDocs)]

SummaryResponses ==
    {"http_error", "transport_error", "bad_json", "not_object",
     "no_field", "empty_summary", "text"}

NoSummary == "<None>"

\* _fetch_raw_summary: RequestException and ValueError are handled, a JSON
\* body that is not an object makes data.get raise AttributeError
_fetch_raw_summary(key, resp) ==
    IF key = NoKey THEN [raised |-> FALSE, value |-> NoSummary]
    ELSE IF resp \in {"http_error", "transport_error", "bad_json"}
         THEN [raised |-> FALSE, value |-> NoSummary]
    ELSE IF resp = "not_object" THEN [raised |-> TRUE, value |-> NoSummary]
    ELSE IF resp \in {"no_field", "empty_summary"}
         THEN [raised |-> FALSE, value |-> NoSummary]
    ELSE [raised |-> FALSE, value |-> "summary text"]

process_meeting_summary(key, resp) == _fetch_raw_summary(key, resp)

\* get_recent_meeting_summaries: every exception of the try block, those of
\* the per-document fetches included, ends in `return []`
get_recent_meeting_summaries(key, listResp, sumResps) ==
    IF key = NoKey THEN <<>>
    ELSE IF listResp.kind # "ok" THEN <<>>
    ELSE IF \E i \in 1..Len(listResp.docs) :
                process_meeting_summary(key, sumResps[i]).raised
         THEN <<>>
    ELSE [i \in 1..Len(listResp.docs) |->
             [id |-> listResp.docs[i],
              summary |-> process_meeting_summary(key, sumResps[i]).value]]

\* --------------------------------------------------------- app.py main()
\* _route_query stores the query on the agent and returns it
_route_query(q) == [last_query |-> q, value |-> q]

\* lines 52-62 of app.py
CategoryMessage(category) ==
    IF category = "test_meeting" THEN "meetings"
    ELSE IF category = "test_client_agreements" THEN "agreements"
    ELSE IF category = "both" THEN "both"
    ELSE "not recognized"

\* one run of main() with no button pressed
Main_Render ==
    /\ pc = "idle"
    /\ Construct
    /\ last_query' = Unset
    /\ ResetQuery
    /\ ResetRefresh
    /\ appMsg' = "none"
    /\ UNCHANGED secretVars

\* one run of main() with "Refresh Meetings" pressed
Main_Refresh ==
    /\ pc = "idle"
    /\ Construct
    /\ last_query' = Unset
    /\ \E listResp \in ListResponses :
       \E sumResps \in [1..Len(listResp.docs) -> SummaryResponses] :
          /\ listed' = IF ragie_api_key' = NoKey THEN <<>> ELSE listResp.docs
          /\ meetings' = get_recent_meeting_summaries(ragie_api_key', listResp, sumResps)
          /\ fetchRaised' = /\ ragie_api_key' # NoKey
                            /\ \E i \in 1..Len(listResp.docs) :
                                  _fetch_raw_summary(ragie_api_key', sumResps[i]).raised
    /\ refreshed' = TRUE
    /\ ResetQuery
    /\ appMsg' = "none"
    /\ UNCHANGED secretVars

\* one run of main() with "Submit Query" pressed
Main_SubmitQuery(q) ==
    /\ pc = "idle"
    /\ Construct
    /\ IF agentsReady'
       THEN /\ last_query' = _route_query(q).last_query
            /\ appMsg' = CategoryMessage(_route_query(q).value)
       ELSE /\ last_query' = Unset
            /\ appMsg' = "error"
    /\ ResetQuery
    /\ ResetRefresh
    /\ UNCHANGED secretVars

\* ------------------------------------------------------------ specification
Next ==
    \/ \E q \in Queries : PQ_Start(q)
    \/ PQ_LookupIntentTool
    \/ DI_Invoke
    \/ DI_MeetingNotes
    \/ DI_ClientAgreements
    \/ DI_Both
    \/ DI_BothClientAgreements
    \/ PQ_MeetingNotes
    \/ PQ_ClientAgreements
    \/ PQ_Summarize
    \/ PQ_Exit
    \/ Main_Render
    \/ Main_Refresh
    \/ \E q \in Queries : Main_SubmitQuery(q)

Spec == Init /\ [][Next]_vars

\* ------------------------------------------------------------------- claims
\* the query has been classified and every retrieval of process_query is over
Retrieved == pc \in {"pq_sum", "done"} \/ (pc = "raised" /\ nClassify >= 1)

\* C1: when the classifier's outcome is Both or Unrecognized, the routed
\* query calls the retrieval API for both collections and hands the results
\* of those two calls to the summarizer.
C1_BroadRetrievalHandsBoth ==
    (Retrieved /\ ~classifyFailed /\ Category(intent) \in {"Both", "Unrecognized"})
        => /\ nMN >= 1
           /\ nCA >= 1
           /\ mnHanded
           /\ caHanded

\* C2: when both text blocks passed to the summarizer are empty, no summary
\* completion call is made.
C2_NoCompletionOnEmptyBlocks ==
    (pc \in {"done", "raised"} /\ nClassify >= 1
        /\ meeting_notes_result = EmptyStr /\ client_agreements_result = EmptyStr)
        => nSynth = 0

\* C3: for a query routed to both collections, when one retrieval call fails
\* and the other succeeds with at least one chunk, the other call is still
\* made, the failed collection's result is the empty text (not None), the
\* other result is non-empty, and the retrieval step does not raise.
C3_FailedRetrievalYieldsEmpty ==
    /\ (Retrieved /\ mnHanded /\ caHanded
           /\ mnResp.kind \in RetrievalFailures
           /\ caResp.kind = "ok" /\ Len(caResp.chunks) >= 1)
          => /\ meeting_notes_result = EmptyStr
             /\ ~client_agreements_result.none
             /\ client_agreements_result.chars # <<>>
    /\ (Retrieved /\ mnHanded /\ caHanded
           /\ caResp.kind \in RetrievalFailures
           /\ mnResp.kind = "ok" /\ Len(mnResp.chunks) >= 1)
          => /\ client_agreements_result = EmptyStr
             /\ ~meeting_notes_result.none
             /\ meeting_notes_result.chars # <<>>

\* C4: when the completion call of the classification fails, the routed
\* query retrieves from both collections, never from none.
C4_ClassificationFailureFailsOpen ==
    (Retrieved /\ classifyFailed) => (nMN >= 1 /\ nCA >= 1)

\* C5: when the classification names the client agreements only, the
\* meeting-notes collection is never queried, the meeting-notes block given
\* to the summarizer is empty and the routed query returns exactly the text
\* the summary completion call produced; symmetrically for meeting notes only.
C5_SingleCollectionRouting ==
    /\ (nClassify >= 1 /\ ~classifyFailed /\ Category(intent) = "ClientAgreements")
          => /\ nMN = 0
             /\ ~mnHanded
             /\ meeting_notes_result = EmptyStr
             /\ (pc = "done" => summary = synthOut)
    /\ (nClassify >= 1 /\ ~classifyFailed /\ Category(intent) = "MeetingNotes")
          => /\ nCA = 0
             /\ ~caHanded
             /\ client_agreements_result = EmptyStr
             /\ (pc = "done" => summary = synthOut)

C5_Witness ==
    /\ pc = "done"
    /\ Category(intent) = "ClientAgreements"
    /\ nCA >= 1
    /\ caResp.kind = "ok"
    /\ client_agreements_result.chars # <<>>
    /\ summary \in SynthTexts

\* C6: with a required API key missing, no pipeline object exists on which a
\* handler can run: no query is being routed, no refresh and no query
\* submission is served.
C6_ConstructionFailsClosed ==
    ~KeysPresent(ragieSecret, openaiSecret)
        => (pc = "idle" /\ ~refreshed /\ appMsg = "none")

\* C7: a failure of the summary completion call does not escape the routed
\* query, which still returns a text.
C7_SynthesisFailureContained ==
    synthFailed => pc = "done"

\* C8: the value determine_intent hands to the dispatch of process_query is
\* one of the four category values, never free completion text or an error
\* message.
CategoryValues ==
    {<<"meeting", "notes">>, <<"client", "agreements">>, <<"both">>, <<"unclear">>}

C8_IntentIsCategoryValue ==
    nClassify >= 1 => intent \in CategoryValues

\* C9: no summary fetch of a refresh raises, and the refresh returns every
\* document the listing returned, whatever happened to the summary fetches.
C9_RefreshKeepsListedDocuments ==
    refreshed => (~fetchRaised /\ Len(meetings) = Len(listed))

\* C10: a routed query goes Received, Classified, Retrieved, Synthesized,
\* Done and ends in Done: once classified it never ends by raising,
\* retrieval calls come after the classification call, the summary call
\* after the retrievals, and neither completion call is made twice.
C10_Lifecycle ==
    /\ (nClassify >= 1 => pc # "raised")
    /\ (nMN + nCA >= 1 => (nClassify = 1 /\ pc \notin {"pq_entry", "di_invoke"}))
    /\ (nSynth >= 1 => pc \in {"done", "raised"})
    /\ nClassify <= 1
    /\ nSynth <= 1

\* C11: handling a query leaves the agent object unchanged: no field of the
\* agent holds data derived from a query, so last_query is never set.
C11_NoQueryDataOnAgent ==
    last_query = Unset

\* C12: within one call of process_query each collection receives at most
\* one retrieval call, and the collections queried are exactly those whose
\* retrieved text is passed to summarize_information, so no retrieval result
\* is discarded.
C12_OneUsedCallPerCollection ==
    /\ nMN <= 1
    /\ nCA <= 1
    /\ Retrieved => /\ (nMN >= 1) <=> mnHanded
                    /\ (nCA >= 1) <=> caHanded

====
